---------------------------- MODULE Spec2Model ----------------------------
(***************************************************************************)
(* Model of trial_matching_agent.py: the patient extraction agent, the     *)
(* trial matching agent and the workflow orchestrator.                     *)
(*                                                                         *)
(* Python strings are sequences of one-character strings, so that lower()  *)
(* and the substring test `in` are computed, not assumed.  A dict is the   *)
(* set of its <<key, value>> pairs.  A call that may raise returns         *)
(* [ok |-> TRUE, val |-> v] or [ok |-> FALSE, err |-> message].            *)
(***************************************************************************)
EXTENDS Integers, Sequences, FiniteSets, TLC

(* ---------------------------- bounds ----------------------------------- *)
\* longest trial list handed to run_workflow
MaxTrials == 2
\* run_workflow calls made on one orchestrator
MaxRuns == 2
\* longest ClinicalTrial.locations list drawn for evaluate_match
MaxSites == 2

(* ------------------------ program constants ---------------------------- *)
\* validate_age: if v < 0 or v > 120
AgeLow == 0
AgeHigh == 120
\* str(e)[:50]
ErrCut == 50
\* PatientData(patient_id="ERR", age=0, ...)
SentinelAge == 0

(* ----------------------------- strings --------------------------------- *)
UpperChars == <<"A","B","C","D","E","F","G","H","I","J","K","L","M",
                "N","O","P","Q","R","S","T","U","V","W","X","Y","Z">>
LowerChars == <<"a","b","c","d","e","f","g","h","i","j","k","l","m",
                "n","o","p","q","r","s","t","u","v","w","x","y","z">>

\* one character of str.lower()
lower_char(c) ==
    IF \E k \in 1..Len(UpperChars) : UpperChars[k] = c
    THEN LowerChars[CHOOSE k \in 1..Len(UpperChars) : UpperChars[k] = c]
    ELSE c

\* str.lower()
lower(s) == [k \in 1..Len(s) |-> lower_char(s[k])]

\* Python's `sub in s` on strings
str_in(sub, s) ==
    \E k \in 0..(Len(s) - Len(sub)) : SubSeq(s, k + 1, k + Len(sub)) = sub

\* s[:n]
Take(s, n) == SubSeq(s, 1, IF Len(s) < n THEN Len(s) ELSE n)

\* n copies of the character c
Rep(c, n) == [k \in 1..n |-> c]

sEmpty == << >>
sToronto == <<"T","o","r","o","n","t","o">>
sTorontoON == sToronto \o <<",", " ", "O", "N">>
sTORONTO == <<"T","O","R","O","N","T","O">>
sMontreal == <<"M","o","n","t","r","e","a","l">>
sVancouver == <<"V","a","n","c","o","u","v","e","r">>
sUnknown == <<"U","n","k","n","o","w","n">>
sDiabetes == <<"D","i","a","b","e","t","e","s">>
sType2Diabetes == <<"T","y","p","e"," ","2"," ">> \o sDiabetes
stype2diabetes == <<"t","y","p","e"," ","2"," ","d","i","a","b","e","t","e","s">>
sHypertension == <<"H","y","p","e","r","t","e","n","s","i","o","n">>
sFail == <<"F","A","I","L">>
sFailedPrefix == <<"F","a","i","l","e","d",":"," ">>
sInsulin == <<"I","n","s","u","l","i","n">>
sMetformin == <<"M","e","t","f","o","r","m","i","n">>
sHbA1c == <<"H","b","A","1","c">>
sERR == <<"E","R","R">>
sP99 == <<"P","-","9","9">>
sNCT001 == <<"N","C","T","0","0","1">>
sNCT002 == <<"N","C","T","0","0","2">>
sNCT003 == <<"N","C","T","0","0","3">>

(* ---------------------------- exceptions ------------------------------- *)
Ok(v) == [ok |-> TRUE, val |-> v]
Raise(msg) == [ok |-> FALSE, err |-> msg]

(* ---------------------------- data models ------------------------------ *)
\* the upper limit taken as exclusive
validate_age_exclusive(v) ==
    IF v < AgeLow \/ v >= AgeHigh THEN Raise(<<"I","n","v","a","l","i","d"," ","a","g","e">>)
    ELSE Ok(v)

\* @validator('age')
validate_age(v) ==
    IF v < AgeLow \/ v > AgeHigh THEN Raise(<<"I","n","v","a","l","i","d"," ","a","g","e">>)
    ELSE Ok(v)

RequiredPatientKeys == {"patient_id", "age", "diagnosis", "location"}

\* PatientData(**kw): kw.keys names the keyword arguments given; a missing
\* required field or a rejected age raises, biomarkers and medications
\* take their default_factory values.
PatientData(kw) ==
    IF ~(RequiredPatientKeys \subseteq kw.keys)
    THEN Raise(<<"f","i","e","l","d"," ","r","e","q","u","i","r","e","d">>)
    ELSE LET a == validate_age(kw.age) IN
         IF ~a.ok THEN a
         ELSE Ok([patient_id |-> kw.patient_id,
                  age |-> a.val,
                  diagnosis |-> kw.diagnosis,
                  biomarkers |-> IF "biomarkers" \in kw.keys THEN kw.biomarkers ELSE {},
                  medications |-> IF "medications" \in kw.keys THEN kw.medications ELSE << >>,
                  location |-> kw.location])

\* ClinicalTrial(...)
ClinicalTrial(trial_id, condition, age_min, age_max, required_biomarkers, excluded_medications, locations) ==
    [trial_id |-> trial_id, condition |-> condition,
     age_min |-> age_min, age_max |-> age_max,
     required_biomarkers |-> required_biomarkers,
     excluded_medications |-> excluded_medications,
     locations |-> locations]

\* MatchResult(...); timestamp is default_factory=datetime.now
MatchResult(patient_id, trial_id, match_decision, confidence_score, reasoning, missing_criteria, now) ==
    [patient_id |-> patient_id, trial_id |-> trial_id,
     match_decision |-> match_decision,
     confidence_score |-> confidence_score,
     reasoning |-> reasoning, missing_criteria |-> missing_criteria,
     timestamp |-> now]

(* ------------------------- TrialMatchingAgent -------------------------- *)
\* a message of the reasoning or missing list: the f-string's fixed text
\* (kind) and the strings, numbers and list formatted into it
Msg(kind, strs, nums, sites) ==
    [kind |-> kind, strs |-> strs, nums |-> nums, sites |-> sites]

\* the locals of evaluate_match before the first check
MatchLocals == [reasoning |-> << >>, missing |-> << >>, checks |-> 0, passed |-> 0]

Pass(st, m) == [st EXCEPT !.reasoning = Append(@, m), !.passed = @ + 1]
Fail(st, m) == [st EXCEPT !.missing = Append(@, m)]

\* Logic 1: Diagnosis
Logic1(st0, patient, trial) ==
    LET st == [st0 EXCEPT !.checks = @ + 1] IN
    IF str_in(lower(trial.condition), lower(patient.diagnosis))
    THEN Pass(st, Msg("Diagnosis match", <<patient.diagnosis>>, << >>, << >>))
    ELSE Fail(st, Msg("Diagnosis mismatch", <<patient.diagnosis, trial.condition>>,
                      << >>, << >>))

\* the age check without its checks += 1
Logic2_uncounted(st0, patient, trial) ==
    IF trial.age_min <= patient.age /\ patient.age <= trial.age_max
    THEN Pass(st0, Msg("Age within range", << >>, <<patient.age>>, << >>))
    ELSE Fail(st0, Msg("Age outside", << >>,
                       <<patient.age, trial.age_min, trial.age_max>>, << >>))

\* Logic 2: Age
Logic2(st0, patient, trial) ==
    LET st == [st0 EXCEPT !.checks = @ + 1] IN
    IF trial.age_min <= patient.age /\ patient.age <= trial.age_max
    THEN Pass(st, Msg("Age within range", << >>, <<patient.age>>, << >>))
    ELSE Fail(st, Msg("Age outside", << >>,
                      <<patient.age, trial.age_min, trial.age_max>>, << >>))

\* the substring test the other way round
location_match_reversed(patient, trial) ==
    \E k \in 1..Len(trial.locations) :
        str_in(lower(patient.location), lower(trial.locations[k]))

\* any(site.lower() in patient.location.lower() for site in trial.locations)
location_match(patient, trial) ==
    \E k \in 1..Len(trial.locations) :
        str_in(lower(trial.locations[k]), lower(patient.location))

\* the location check without its passed += 1
Logic3_pass_uncounted(st0, patient, trial) ==
    LET st == [st0 EXCEPT !.checks = @ + 1] IN
    IF location_match(patient, trial)
    THEN [st EXCEPT !.reasoning =
            Append(@, Msg("Location match", <<patient.location>>, << >>, << >>))]
    ELSE Fail(st, Msg("Location not in trial sites", <<patient.location>>, << >>,
                      trial.locations))

\* Logic 3: Location
Logic3(st0, patient, trial) ==
    LET st == [st0 EXCEPT !.checks = @ + 1] IN
    IF location_match(patient, trial)
    THEN Pass(st, Msg("Location match", <<patient.location>>, << >>, << >>))
    ELSE Fail(st, Msg("Location not in trial sites", <<patient.location>>, << >>,
                      trial.locations))

\* passed / checks if checks > 0 else 0, as the exact fraction
confidence_of(passed, checks) ==
    IF checks > 0 THEN [num |-> passed, den |-> checks] ELSE [num |-> 0, den |-> 1]

\* the looser threshold: two checks out of three are enough
decision_of_two_thirds(confidence) == confidence.num * 3 >= confidence.den * 2

\* decision = (confidence == 1.0)
decision_of(confidence) == confidence.num = confidence.den

\* evaluate_match also refusing a patient on an excluded medication
evaluate_match_excluding(patient, trial, now) ==
    LET st1 == Logic1(MatchLocals, patient, trial)
        st2 == Logic2(st1, patient, trial)
        st3 == Logic3(st2, patient, trial)
        confidence == confidence_of(st3.passed, st3.checks)
        excluded == \E a \in 1..Len(patient.medications) :
                        \E b \in 1..Len(trial.excluded_medications) :
                            patient.medications[a] = trial.excluded_medications[b]
    IN MatchResult(patient.patient_id, trial.trial_id,
                   decision_of(confidence) /\ ~excluded,
                   confidence, st3.reasoning, st3.missing, now)

evaluate_match(patient, trial, now) ==
    LET st1 == Logic1(MatchLocals, patient, trial)
        st2 == Logic2(st1, patient, trial)
        st3 == Logic3(st2, patient, trial)
        confidence == confidence_of(st3.passed, st3.checks)
    IN MatchResult(patient.patient_id, trial.trial_id, decision_of(confidence),
                   confidence, st3.reasoning, st3.missing, now)

(* ----------------------- PatientExtractionAgent ------------------------ *)
\* What chain.invoke does with the prompt is the language model's business:
\* it raises, or returns content.  Content is a sequence of tokens: the
\* Markdown fences, whitespace, text that is not JSON, a JSON array, a
\* JSON object (obj holds its members, obj.keys the names present).
Tok(t) == [t |-> t, obj |-> [keys |-> {}]]
TokObject(obj) == [t |-> "object", obj |-> obj]

Invoked(content) == [raises |-> FALSE, err |-> sEmpty, content |-> content]
InvokeRaises(err) == [raises |-> TRUE, err |-> err, content |-> << >>]

\* str.replace(old, ""), old one of the fence tokens
replace_token(content, old) == SelectSeq(content, LAMBDA x : x.t # old)

RECURSIVE lstrip(_)
lstrip(content) ==
    IF content # << >> /\ Head(content).t = "ws" THEN lstrip(Tail(content)) ELSE content

RECURSIVE rstrip(_)
rstrip(content) ==
    IF content # << >> /\ content[Len(content)].t = "ws"
    THEN rstrip(SubSeq(content, 1, Len(content) - 1)) ELSE content

\* str.strip()
strip(content) == rstrip(lstrip(content))

\* raw_content.replace("```json", "").replace("```", "").strip()
clean(raw_content) ==
    strip(replace_token(replace_token(raw_content, "fence_json"), "fence"))

\* json.loads: one JSON value and nothing else
json_loads(clean_content) ==
    IF Len(clean_content) = 1 /\ clean_content[1].t \in {"object", "array"}
    THEN Ok(clean_content[1])
    ELSE Raise(<<"E","x","p","e","c","t","i","n","g"," ","v","a","l","u","e">>)

\* if "biomarkers" not in result: result["biomarkers"] = {}  (and the same
\* for medications); on a JSON array the item assignment is a TypeError
add_defaults(result) ==
    IF result.t = "array"
    THEN Raise(<<"l","i","s","t"," ","i","n","d","i","c","e","s">>)
    ELSE LET o == result.obj IN
         Ok([o EXCEPT !.keys = @ \cup {"biomarkers", "medications"},
                      !.biomarkers = IF "biomarkers" \in o.keys THEN @ ELSE {},
                      !.medications = IF "medications" \in o.keys THEN @ ELSE << >>])

\* the try block of extract_from_text
try_extract(response) ==
    IF response.raises THEN Raise(response.err)
    ELSE LET parsed == json_loads(clean(response.content)) IN
         IF ~parsed.ok THEN parsed
         ELSE LET result == add_defaults(parsed.val) IN
              IF ~result.ok THEN result ELSE PatientData(result.val)

\* the except block: PatientData(patient_id="ERR", age=0,
\*     diagnosis=f"Failed: {str(e)[:50]}", location="Unknown")
sentinel(err) ==
    PatientData([keys |-> RequiredPatientKeys, patient_id |-> sERR, age |-> SentinelAge,
                 diagnosis |-> sFailedPrefix \o Take(err, ErrCut),
                 biomarkers |-> {}, medications |-> << >>, location |-> sUnknown])

\* a try block that covers the external call and json.loads only
extract_from_text_narrow_try(response) ==
    LET r == try_extract(response) IN
    IF r.ok THEN r
    ELSE IF response.raises \/ ~json_loads(clean(response.content)).ok
         THEN sentinel(r.err)
         ELSE r

extract_from_text(response) ==
    LET r == try_extract(response) IN IF r.ok THEN r ELSE sentinel(r.err)

(* ----------------------------- universes ------------------------------- *)
\* TrialDatabase.get_trials()
get_trials ==
    << ClinicalTrial(sNCT001, sDiabetes, 18, 75, {}, <<sInsulin>>, <<sToronto, sMontreal>>),
       ClinicalTrial(sNCT002, sHypertension, 40, 80, {}, << >>, <<sVancouver>>) >>

\* two paediatric trials a caller may pass besides the database's
PaediatricTrials ==
    { ClinicalTrial(sNCT003, sFail, 0, 17, {}, << >>, <<sUnknown>>),
      ClinicalTrial(<<"N","C","T","0","0","4">>, <<"A","s","t","h","m","a">>, 0, 17, {}, << >>,
                    <<sUnknown>>) }

TrialUniverse == {get_trials[k] : k \in 1..Len(get_trials)} \cup PaediatricTrials

TrialLists == UNION {[1..n -> TrialUniverse] : n \in 0..MaxTrials}

FullKeys == RequiredPatientKeys \cup {"biomarkers", "medications"}

JsonObject(keys, age) ==
    [keys |-> keys, patient_id |-> sP99, age |-> age, diagnosis |-> sType2Diabetes,
     biomarkers |-> {<<sHbA1c, 82>>}, medications |-> <<sMetformin>>,
     location |-> sToronto]

\* objects PatientData accepts, objects whose age it rejects, objects that
\* lack a required field
ValidObjects == {JsonObject(k, a) : k \in {FullKeys, RequiredPatientKeys},
                                    a \in {AgeLow, 52, AgeHigh}}
BadAgeObjects == {JsonObject(k, a) : k \in {FullKeys, RequiredPatientKeys},
                                     a \in {AgeLow - 1, AgeHigh + 1}}
IncompleteObjects == {JsonObject(FullKeys \ {"location"}, 52), JsonObject({"patient_id"}, 52)}

\* the ways the model wraps one JSON value
Wrapped(v) == { <<v>>, <<Tok("fence_json"), Tok("ws"), v, Tok("ws"), Tok("fence")>>,
                <<Tok("ws"), v, Tok("fence")>> }

ValidResponses == {Invoked(c) : c \in UNION {Wrapped(TokObject(o)) : o \in ValidObjects}}
InvalidResponses ==
    {Invoked(<<TokObject(o)>>) : o \in BadAgeObjects \cup IncompleteObjects}
    \cup {Invoked(c) : c \in Wrapped(TokObject(JsonObject(FullKeys, AgeHigh + 1)))}
    \cup {Invoked(<<Tok("array")>>)}
UnparseableResponses ==
    {Invoked(c) : c \in { << >>, <<Tok("junk")>>, <<Tok("fence_json"), Tok("fence")>>,
                          <<Tok("junk"), TokObject(JsonObject(FullKeys, 52))>>,
                          <<TokObject(JsonObject(FullKeys, 52)), Tok("ws"),
                            TokObject(JsonObject(FullKeys, 52))>> }}
RaisingResponses ==
    {InvokeRaises(e) : e \in {<<"q","u","o","t","a">>, Rep("x", ErrCut + 2)}}

FailingResponses == RaisingResponses \cup UnparseableResponses \cup InvalidResponses
Responses == ValidResponses \cup FailingResponses

(* ------------------------- WorkflowOrchestrator ------------------------ *)
VARIABLES
    pc,         \* where the run_workflow call stands: idle, extract, loop
    trials,     \* run_workflow's trials argument
    patient,    \* run_workflow's local patient
    results,    \* run_workflow's local results, and what it returns
    idx,        \* position of the for loop in trials
    history,    \* self.history
    clock,      \* datetime.now() calls so far: the timestamps
    runs,       \* run_workflow calls so far
    outcome,    \* how the last call ended: none, running, returned, raised
    response,   \* what chain.invoke did in this call
    llm_calls,  \* chain.invoke calls of this call
    log         \* calls made by this run_workflow call, in order

vars == <<pc, trials, patient, results, idx, history, clock, runs, outcome,
          response, llm_calls, log>>

NoPatient ==
    [patient_id |-> sEmpty, age |-> AgeLow, diagnosis |-> sEmpty, biomarkers |-> {},
     medications |-> << >>, location |-> sEmpty]
NoResponse == Invoked(<< >>)

Event(op, k, p) == [op |-> op, k |-> k, patient |-> p]

\* WorkflowOrchestrator.__init__
Init ==
    /\ pc = "idle" /\ trials = << >> /\ patient = NoPatient /\ results = << >>
    /\ idx = 0 /\ history = << >> /\ clock = 0 /\ runs = 0 /\ outcome = "none"
    /\ response = NoResponse /\ llm_calls = 0 /\ log = << >>

\* a caller enters run_workflow(text, trials)
RunWorkflow ==
    /\ pc = "idle" /\ runs < MaxRuns
    /\ \E ts \in TrialLists : trials' = ts
    /\ pc' = "extract" /\ runs' = runs + 1 /\ outcome' = "running"
    /\ patient' = NoPatient /\ results' = << >> /\ idx' = 0
    /\ response' = NoResponse /\ llm_calls' = 0 /\ log' = << >>
    /\ UNCHANGED <<history, clock>>

\* extraction that calls the external service again after a failure
ExtractFromText_retry ==
    /\ pc = "extract"
    /\ \E resp \in Responses :
         LET r == extract_from_text(resp) IN
         /\ response' = resp
         /\ llm_calls' = llm_calls + (IF resp \in FailingResponses THEN 2 ELSE 1)
         /\ patient' = r.val /\ idx' = 1 /\ pc' = "loop"
         /\ log' = Append(log, Event("extract_from_text", 0, r.val))
    /\ results' = << >>
    /\ UNCHANGED <<trials, history, clock, runs, outcome>>

\* patient = self.extractor.extract_from_text(text); results = []
ExtractFromText ==
    /\ pc = "extract"
    /\ \E resp \in Responses :
         LET r == extract_from_text(resp) IN
         /\ response' = resp
         /\ llm_calls' = llm_calls + 1
         /\ IF r.ok
            THEN /\ patient' = r.val /\ idx' = 1 /\ pc' = "loop"
                 /\ log' = Append(log, Event("extract_from_text", 0, r.val))
                 /\ UNCHANGED outcome
            ELSE /\ pc' = "idle" /\ outcome' = "raised"
                 /\ log' = Append(log, Event("extract_from_text", 0, NoPatient))
                 /\ UNCHANGED <<patient, idx>>
    /\ results' = << >>
    /\ UNCHANGED <<trials, history, clock, runs>>

\* the loop body putting each result in front: results.insert(0, res)
MatchTrial_prepend ==
    /\ pc = "loop" /\ idx <= Len(trials)
    /\ results' = <<evaluate_match(patient, trials[idx], clock)>> \o results
    /\ clock' = clock + 1
    /\ idx' = idx + 1
    /\ log' = Append(log, Event("evaluate_match", idx, patient))
    /\ UNCHANGED <<pc, trials, patient, history, runs, outcome, response, llm_calls>>

\* for trial in trials: res = self.matcher.evaluate_match(patient, trial);
\*                       results.append(res)
MatchTrial ==
    /\ pc = "loop" /\ idx <= Len(trials)
    /\ results' = Append(results, evaluate_match(patient, trials[idx], clock))
    /\ clock' = clock + 1
    /\ idx' = idx + 1
    /\ log' = Append(log, Event("evaluate_match", idx, patient))
    /\ UNCHANGED <<pc, trials, patient, history, runs, outcome, response, llm_calls>>

\* "matches" counting the eligible decisions instead of len(results)
AppendHistory_eligible ==
    /\ pc = "loop" /\ idx > Len(trials)
    /\ history' = Append(history,
           [time |-> clock,
            matches |-> Cardinality({i \in 1..Len(results) : results[i].match_decision})])
    /\ clock' = clock + 1
    /\ pc' = "idle" /\ outcome' = "returned"
    /\ log' = Append(log, Event("history.append", Len(results), patient))
    /\ UNCHANGED <<trials, patient, results, idx, runs, response, llm_calls>>

\* self.history.append({"time": datetime.now(), "matches": len(results)});
\* return results
AppendHistory ==
    /\ pc = "loop" /\ idx > Len(trials)
    /\ history' = Append(history, [time |-> clock, matches |-> Len(results)])
    /\ clock' = clock + 1
    /\ pc' = "idle" /\ outcome' = "returned"
    /\ log' = Append(log, Event("history.append", Len(results), patient))
    /\ UNCHANGED <<trials, patient, results, idx, runs, response, llm_calls>>

Next == RunWorkflow \/ ExtractFromText \/ MatchTrial \/ AppendHistory

Spec == Init /\ [][Next]_vars

(* ------------- evaluate_match on inputs drawn from bounded sets -------- *)
PatientInputs ==
    { PatientData([keys |-> FullKeys, patient_id |-> sP99, age |-> a, diagnosis |-> d,
                   biomarkers |-> b, medications |-> m, location |-> l]).val :
        a \in {AgeLow, 52, 76}, d \in {sType2Diabetes, stype2diabetes, sHypertension},
        b \in {{}, {<<sHbA1c, 82>>}}, m \in {<< >>, <<sInsulin>>},
        l \in {sToronto, sTorontoON, sUnknown} }

SiteLists == UNION {[1..n -> {sTORONTO, sTorontoON}] : n \in 0..MaxSites}

TrialInputs ==
    { ClinicalTrial(sNCT001, c, r[1], r[2], rb, em, sl) :
        c \in {sDiabetes, sHypertension, sEmpty}, r \in {<<18, 75>>, <<40, 80>>},
        rb \in {{}, {<<sHbA1c, <<70, 100>> >>}}, em \in {<< >>, <<sInsulin>>},
        sl \in SiteLists }

\* inside run_workflow's loop, before the one trial of the list is matched
MatchInit ==
    /\ pc = "loop" /\ idx = 1 /\ results = << >>
    /\ patient \in PatientInputs
    /\ \E t \in TrialInputs : trials = <<t>>
    /\ history = << >> /\ clock = 0 /\ runs = 1 /\ outcome = "running"
    /\ response = NoResponse /\ llm_calls = 1
    /\ log = <<Event("extract_from_text", 0, patient)>>

MatchNext == MatchTrial

MatchSpec == MatchInit /\ [][MatchNext]_vars

(* ===================== properties of the program ====================== *)
\* Case-insensitive containment stated letter by letter, without lower()
\* and without the substring operator of the model.
SameLetter(a, b) ==
    a = b \/ \E k \in 1..Len(UpperChars) : {a, b} = {UpperChars[k], LowerChars[k]}

ContainsCI(hay, needle) ==
    \E off \in 0..(Len(hay) - Len(needle)) :
        \A j \in 1..Len(needle) : SameLetter(hay[off + j], needle[j])

HasMsg(list, kind) == \E j \in 1..Len(list) : list[j].kind = kind

\* what a MatchResult decides: everything but the identifiers and timestamp
Outcome(r) ==
    [match_decision |-> r.match_decision, confidence_score |-> r.confidence_score,
     reasoning |-> r.reasoning, missing_criteria |-> r.missing_criteria]

StripPatient(p) == [p EXCEPT !.biomarkers = {}, !.medications = << >>]
StripTrial(t) == [t EXCEPT !.required_biomarkers = {}, !.excluded_medications = << >>]

DiagnosisHolds(p, t) == ContainsCI(p.diagnosis, t.condition)
AgeHolds(p, t) == t.age_min <= p.age /\ p.age <= t.age_max
LocationHolds(p, t) == \E j \in 1..Len(t.locations) : ContainsCI(p.location, t.locations[j])

IsSentinel(p) ==
    /\ p.patient_id = sERR /\ p.age = 0 /\ p.location = sUnknown
    /\ p.biomarkers = {} /\ p.medications = << >>

\* C1: every MatchResult of evaluate_match has len(reasoning) +
\* len(missing_criteria) = 3 and confidence_score = len(reasoning) / 3, a
\* value among 0, 1/3, 2/3, 1.
C1_ScoreIsPassedOverThree ==
    \A k \in 1..Len(results) :
        LET r == results[k]
            c == r.confidence_score
        IN /\ Len(r.reasoning) + Len(r.missing_criteria) = 3
           /\ c.den > 0
           /\ c.num * 3 = Len(r.reasoning) * c.den
           /\ 0 <= c.num /\ c.num <= c.den

\* C1 witness: one check passed and two failed, confidence 1/3.
C1_Witness ==
    /\ Len(results) = 1
    /\ Len(results[1].reasoning) = 1 /\ Len(results[1].missing_criteria) = 2
    /\ results[1].confidence_score.num * 3 = results[1].confidence_score.den

\* C2: match_decision is true exactly when the diagnosis, age and location
\* checks all pass, which is exactly when missing_criteria is empty and the
\* confidence is 1; two passes out of three are not enough.
C2_DecisionIffAllPass ==
    \A k \in 1..Len(results) :
        LET r == results[k]
            t == trials[k]
            all == DiagnosisHolds(patient, t) /\ AgeHolds(patient, t)
                   /\ LocationHolds(patient, t)
        IN /\ r.match_decision <=> all
           /\ r.match_decision <=>
                (r.missing_criteria = << >>
                 /\ r.confidence_score.num = r.confidence_score.den)
           /\ Len(r.reasoning) = 2 => ~r.match_decision

\* C2 witness: exactly two checks passed and the decision is false.
C2_Witness ==
    /\ Len(results) = 1
    /\ Len(results[1].reasoning) = 2
    /\ ~results[1].match_decision

\* C3: run_workflow always returns, with one decision per trial, the i-th
\* being the decision of the i-th trial.
C3_ResultsFollowTrialOrder ==
    /\ (pc = "idle" /\ runs > 0) => outcome = "returned"
    /\ outcome = "returned" =>
         /\ Len(results) = Len(trials)
         /\ \A i \in 1..Len(trials) :
              /\ results[i].trial_id = trials[i].trial_id
              /\ Outcome(results[i]) = Outcome(evaluate_match(patient, trials[i], 0))

\* C3 witness: a call returned for a list of two different trials.
C3_Witness ==
    /\ outcome = "returned" /\ Len(trials) = 2
    /\ trials[1].trial_id # trials[2].trial_id
    /\ results[2].trial_id = trials[2].trial_id

\* C4: when the external call raises, returns content that is not JSON, or
\* returns JSON that fails validation, extract_from_text raises nothing and
\* returns the sentinel record.
C4_FailureGivesSentinel ==
    (llm_calls > 0 /\ response \in FailingResponses) =>
        /\ outcome # "raised"
        /\ pc # "extract"
        /\ IsSentinel(patient)

\* C4 witness: the response held an age of 121 and the sentinel came back.
C4_Witness ==
    /\ llm_calls > 0
    /\ response = Invoked(<<TokObject(JsonObject(FullKeys, AgeHigh + 1))>>)
    /\ IsSentinel(patient)
    /\ pc = "loop"

\* C5 as claimed: after a failed extraction no decision of the returned
\* list is true, whatever trials were passed.
C5_SentinelNeverEligible ==
    (outcome = "returned" /\ response \in FailingResponses) =>
        \A i \in 1..Len(results) : ~results[i].match_decision

\* C5 as amended: after a failed extraction run_workflow still returns one
\* decision per trial, and a decision is true only for a trial that admits
\* age 0, whose condition occurs in the sentinel's diagnosis and one of
\* whose sites occurs in "Unknown"; the trials of get_trials never are.
C5_SentinelEligibleOnlyIf ==
    /\ (llm_calls > 0 /\ response \in FailingResponses) => outcome # "raised"
    /\ (outcome = "returned" /\ response \in FailingResponses) =>
         /\ Len(results) = Len(trials)
         /\ \A i \in 1..Len(results) :
              /\ results[i].match_decision =>
                   /\ trials[i].age_min <= 0 /\ 0 <= trials[i].age_max
                   /\ ContainsCI(patient.diagnosis, trials[i].condition)
                   /\ \E j \in 1..Len(trials[i].locations) :
                        ContainsCI(sUnknown, trials[i].locations[j])
              /\ (\E j \in 1..Len(get_trials) : trials[i] = get_trials[j])
                   => ~results[i].match_decision

\* C5 witness: extraction failed and the database's two trials came back
\* ineligible.
C5_Witness ==
    /\ outcome = "returned" /\ response \in FailingResponses
    /\ trials = get_trials
    /\ Len(results) = 2
    /\ ~results[1].match_decision /\ ~results[2].match_decision

\* the JSON object of a response that holds one
ObjectOf(resp) ==
    resp.content[CHOOSE j \in 1..Len(resp.content) : resp.content[j].t = "object"].obj

\* responses holding one JSON object with every required field
WellFormedResponses ==
    ValidResponses
    \cup {Invoked(<<TokObject(o)>>) : o \in BadAgeObjects}
    \cup {Invoked(c) : c \in Wrapped(TokObject(JsonObject(FullKeys, AgeHigh + 1)))}

C7_LocationCheck ==
    \A k \in 1..Len(results) :
        LET r == results[k]
            t == trials[k]
        IN /\ HasMsg(r.reasoning, "Location match") <=> LocationHolds(patient, t)
           /\ HasMsg(r.missing_criteria, "Location not in trial sites")
                <=> ~LocationHolds(patient, t)
           /\ t.locations = << >> => ~HasMsg(r.reasoning, "Location match")
           /\ (\A j \in 1..Len(t.locations) :
                 Len(t.locations[j]) > Len(patient.location))
                => ~HasMsg(r.reasoning, "Location match")

\* C7 witness: site "TORONTO" matched the patient location "Toronto, ON".
C7_Witness ==
    /\ Len(results) = 1
    /\ patient.location = sTorontoON /\ trials[1].locations = <<sTORONTO>>
    /\ HasMsg(results[1].reasoning, "Location match")

\* C8: history only grows by appending: each run_workflow call that ends
\* appends one entry whose matches is the length of the trial list passed,
\* nothing else touches history, and between calls it has one entry per call.
C8_HistoryAppendOnly ==
    [][ /\ SubSeq(history', 1, Len(history)) = history
        /\ Len(history') >= Len(history)
        /\ (pc # "idle" /\ pc' = "idle") =>
             /\ Len(history') = Len(history) + 1
             /\ history'[Len(history')].matches = Len(trials)
        /\ ~(pc # "idle" /\ pc' = "idle") => history' = history
        /\ pc' = "idle" => Len(history') = runs' ]_vars

\* C8 witness: two calls ended, the first on an empty trial list, the
\* second after a failed extraction on two trials.
C8_Witness ==
    /\ pc = "idle" /\ Len(history) = 2
    /\ history[1].matches = 0
    /\ history[2].matches = 2 /\ Len(trials) = 2
    /\ response \in FailingResponses

\* C9: evaluate_match's outcome is the one it gives with the patient's
\* biomarkers and medications and the trial's required_biomarkers and
\* excluded_medications emptied, and the call changes neither argument.
C9_IgnoresBiomarkersAndMedications ==
    [][ Len(results') = Len(results) + 1 =>
          LET n == Len(results') IN
          /\ patient' = patient /\ trials' = trials
          /\ Outcome(results'[n])
               = Outcome(evaluate_match(StripPatient(patient), StripTrial(trials[n]), 0)) ]_vars

\* C9 witness: a patient on Insulin is eligible for a trial that excludes
\* Insulin.
C9_Witness ==
    /\ Len(results) = 1 /\ results[1].match_decision
    /\ patient.medications = <<sInsulin>>
    /\ trials[1].excluded_medications = <<sInsulin>>

\* C10: in one run_workflow call the extraction agent is called once, with
\* one external call, then the matcher once per trial in list order on the
\* record extraction returned, and history is appended after the last match.
C10_CallOrder ==
    /\ pc = "extract" => (log = << >> /\ llm_calls = 0)
    /\ pc = "loop" => (llm_calls = 1 /\ Len(log) = idx)
    /\ outcome = "returned" =>
         /\ llm_calls = 1 /\ Len(log) = Len(trials) + 2
         /\ log[Len(log)].op = "history.append"
         /\ \A i \in 1..Len(results) : results[i].patient_id = log[1].patient.patient_id
    /\ (pc = "loop" \/ outcome = "returned") =>
         /\ log[1].op = "extract_from_text" /\ log[1].patient = patient
         /\ \A k \in 2..Len(log) :
              \/ k = Len(trials) + 2 /\ log[k].op = "history.append"
              \/ /\ k <= Len(trials) + 1
                 /\ log[k] = Event("evaluate_match", k - 1, log[1].patient)

\* C10 witness: extraction failed and the call still ran one external call,
\* two matches in order and then the history append.
C10_Witness ==
    /\ outcome = "returned" /\ response \in FailingResponses
    /\ Len(trials) = 2 /\ llm_calls = 1
    /\ Len(log) = 4 /\ log[2].k = 1 /\ log[3].k = 2 /\ log[4].op = "history.append"

=============================================================================
